---- MODULE Spec2Model ----
(***************************************************************************)
(* Model of the ERC-7730 descriptor generator (generate_erc7730.py) and of  *)
(* the descriptor checker (validate_erc7730.py).                           *)
(*                                                                         *)
(* Text is modelled character by character: a Python str is a TLA+ string, *)
(* read with Len and SubSeq and built with \o.  Regular expressions are    *)
(* modelled by matchers that accept exactly the same texts and return the  *)
(* same groups as the patterns of the source.                              *)
(***************************************************************************)
EXTENDS Integers, Sequences, FiniteSets, TLC

\* input          the declarations the source file was written from
\* address        args.address (None when --address is not given)
\* content        SolidityParser.content
\* lines          the list lines of _parse_functions
\* idx            the loop index i of _parse_functions
\* contract_name  SolidityParser.contract_name
\* functions      SolidityParser.functions, ERC7730Generator.functions
\* descriptor     the value returned by ERC7730Generator.generate
\* output         the output file: None until it is written
\* exit_status    the exit status of the process: None while it runs
\* pc             the position in main
\* param          a FunctionParameter under classification
\* fmt            the result of param.get_format()
\* loop_natspec   the local natspec of _parse_functions (None while unbound)
\* loop_func_text the local func_text of _parse_functions (None while unbound)
\* split_arg      the argument params_str of a call of _split_parameters
\* split_parts    the list parts returned by that call
\* files          args.files of validate_erc7730.py
\* validators     the ERC7730Validator objects main has run, one per file
\* all_passed     the flag all_passed of main of validate_erc7730.py
VARIABLES input, address, content, lines, idx, contract_name, functions, descriptor, output, exit_status, pc, param, fmt, loop_natspec, loop_func_text, split_arg, split_parts, files, validators, all_passed

vars == <<input, address, content, lines, idx, contract_name, functions,
          descriptor, output, exit_status, pc, param, fmt, loop_natspec,
          loop_func_text, split_arg, split_parts, files, validators, all_passed>>

\* the state of _split_parameters and of the checker
split_vars == <<split_arg, split_parts>>
loop_vars == <<loop_natspec, loop_func_text>>
checker_vars == <<files, validators, all_passed>>

\* Python's None where a str is optional.  No text of the model is equal to
\* it.  An optional value of another type is a sequence: <<>> for None and
\* <<v>> for the value v.
None == "<None>"

-----------------------------------------------------------------------------
(* Python str operations *)

UpperChars == "ABCDEFGHIJKLMNOPQRSTUVWXYZ"
LowerChars == "abcdefghijklmnopqrstuvwxyz"
DigitChars == "0123456789"

Char(s, k) == SubSeq(s, k, k)

\* c in s, for a single character c
InChars(c, s) == \E k \in 1..Len(s) : Char(s, k) = c

\* regular expression class \w
IsWord(c) == InChars(c, LowerChars) \/ InChars(c, UpperChars)
                \/ InChars(c, DigitChars) \/ c = "_"

\* regular expression class \s, and the characters str.strip removes
IsSpace(c) == c \in {" ", "\n", "\t", "\r"}

\* sub in s
Contains(s, sub) ==
    \E k \in 1..(Len(s) - Len(sub) + 1) : SubSeq(s, k, k + Len(sub) - 1) = sub

\* sub occurs in s at position k
At(s, k, sub) == k >= 1 /\ k + Len(sub) - 1 <= Len(s)
                    /\ SubSeq(s, k, k + Len(sub) - 1) = sub

StartsWith(s, sub) == At(s, 1, sub)
EndsWith(s, sub) == At(s, Len(s) - Len(sub) + 1, sub)

LowerChar(c) ==
    IF InChars(c, UpperChars)
    THEN Char(LowerChars, CHOOSE k \in 1..26 : Char(UpperChars, k) = c)
    ELSE c

UpperChar(c) ==
    IF InChars(c, LowerChars)
    THEN Char(UpperChars, CHOOSE k \in 1..26 : Char(LowerChars, k) = c)
    ELSE c

RECURSIVE Lower(_)
Lower(s) == IF s = "" THEN ""
            ELSE LowerChar(Char(s, 1)) \o Lower(SubSeq(s, 2, Len(s)))

\* first position >= k of s whose character is not whitespace (Len(s)+1 if none)
RECURSIVE SkipSpace(_, _)
SkipSpace(s, k) == IF k <= Len(s) /\ IsSpace(Char(s, k))
                   THEN SkipSpace(s, k + 1) ELSE k

\* first position >= k of s whose character is not a word character
RECURSIVE SkipWord(_, _)
SkipWord(s, k) == IF k <= Len(s) /\ IsWord(Char(s, k))
                  THEN SkipWord(s, k + 1) ELSE k

\* last position <= k of s whose character is not whitespace (0 if none)
RECURSIVE SkipSpaceBack(_, _)
SkipSpaceBack(s, k) == IF k >= 1 /\ IsSpace(Char(s, k))
                       THEN SkipSpaceBack(s, k - 1) ELSE k

Strip(s) == SubSeq(s, SkipSpace(s, 1), SkipSpaceBack(s, Len(s)))

\* s.replace(old, "") for a non-empty old
RECURSIVE Remove(_, _)
Remove(s, old) ==
    IF s = "" THEN ""
    ELSE IF At(s, 1, old) THEN Remove(SubSeq(s, Len(old) + 1, Len(s)), old)
    ELSE Char(s, 1) \o Remove(SubSeq(s, 2, Len(s)), old)

\* s.split(sep)[0] for a single character sep
RECURSIVE UpTo(_, _)
UpTo(s, sep) ==
    IF s = "" \/ Char(s, 1) = sep THEN ""
    ELSE Char(s, 1) \o UpTo(SubSeq(s, 2, Len(s)), sep)

\* s.split(sep) for a single character sep
RECURSIVE Split(_, _)
Split(s, sep) ==
    LET head == UpTo(s, sep)
    IN  IF Len(head) = Len(s) THEN <<s>>
        ELSE <<head>> \o Split(SubSeq(s, Len(head) + 2, Len(s)), sep)

\* sep.join(parts)
RECURSIVE Join(_, _)
Join(parts, sep) ==
    IF parts = <<>> THEN ""
    ELSE IF Len(parts) = 1 THEN parts[1]
    ELSE parts[1] \o sep \o Join(Tail(parts), sep)

\* any(x in s for x in subs)
ContainsAny(s, subs) == \E x \in subs : Contains(s, x)

-----------------------------------------------------------------------------
(* FunctionParameter *)

FunctionParameter(name, type) == [name |-> name, type |-> type]

\* get_format with the date rule tried before the tokenAmount rule
get_format_date_first(p) ==
    IF p.type = "address" THEN "addressName"
    ELSE IF StartsWith(p.type, "uint") \/ StartsWith(p.type, "int") THEN
        IF ContainsAny(Lower(p.name), {"timestamp", "time", "deadline"})
            THEN "date"
        ELSE IF ContainsAny(Lower(p.name), {"amount", "value", "balance"})
            THEN "tokenAmount"
        ELSE IF ContainsAny(Lower(p.name), {"duration", "period"})
            THEN "duration"
        ELSE "raw"
    ELSE IF p.type = "bytes" THEN "calldata"
    ELSE IF p.type = "bool" THEN "enum"
    ELSE "raw"

get_format(p) ==
    IF p.type = "address" THEN "addressName"
    ELSE IF StartsWith(p.type, "uint") \/ StartsWith(p.type, "int") THEN
        IF ContainsAny(Lower(p.name), {"amount", "value", "balance"})
            THEN "tokenAmount"
        ELSE IF ContainsAny(Lower(p.name), {"timestamp", "time", "deadline"})
            THEN "date"
        ELSE IF ContainsAny(Lower(p.name), {"duration", "period"})
            THEN "duration"
        ELSE IF ContainsAny(Lower(p.name), {"bps", "basis", "percent"})
            THEN "raw"
        ELSE "raw"
    ELSE IF StartsWith(p.type, "bytes") THEN
        IF p.type = "bytes" THEN "calldata" ELSE "raw"
    ELSE IF p.type = "string" THEN "raw"
    ELSE IF p.type = "bool" THEN "enum"
    ELSE IF EndsWith(p.type, "[]") THEN "raw"
    ELSE "raw"

needs_token_path(p) == get_format(p) = "tokenAmount"

-----------------------------------------------------------------------------
(* FunctionSignature *)

FunctionSignature(name, parameters, visibility, natspec) ==
    [name |-> name, parameters |-> parameters, visibility |-> visibility,
     natspec |-> natspec]

\* [p.type for p in parameters]
ParamTypes(parameters) == [k \in 1..Len(parameters) |-> parameters[k].type]

get_signature(f) == f.name \o "(" \o Join(ParamTypes(f.parameters), ",") \o ")"

\* first position >= k of s whose character is "@" (Len(s)+1 if none)
RECURSIVE SkipNotAt(_, _)
SkipNotAt(s, k) == IF k <= Len(s) /\ Char(s, k) # "@"
                   THEN SkipNotAt(s, k + 1) ELSE k

\* re.search(r'@notice\s+([^@]+)', s): the positions where a match starts.
\* After "@notice" the pattern needs one whitespace character and one more
\* character that is not "@" (which may itself be whitespace).
NoticeStarts(s) ==
    {p \in 1..Len(s) :
        /\ At(s, p, "@notice")
        /\ p + 7 <= Len(s) /\ IsSpace(Char(s, p + 7))
        /\ LET r == SkipSpace(s, p + 7)
           IN  \/ r <= Len(s) /\ Char(s, r) # "@"
               \/ r - (p + 7) >= 2}

\* group(1) of the leftmost match, None when the pattern does not match
NoticeGroup(s) ==
    IF NoticeStarts(s) = {} THEN None
    ELSE LET p == CHOOSE q \in NoticeStarts(s) :
                        \A q2 \in NoticeStarts(s) : q <= q2
             r == SkipSpace(s, p + 7)
         IN  IF r <= Len(s) /\ Char(s, r) # "@"
             THEN SubSeq(s, r, SkipNotAt(s, r) - 1)
             ELSE Char(s, r - 1)

\* the ordered prefix table of get_intent
IntentPrefixes ==
    << <<"transfer", "Transfer tokens">>,
       <<"approve", "Approve token spending">>,
       <<"execute", "Execute operation">>,
       <<"deposit", "Deposit funds">>,
       <<"withdraw", "Withdraw funds">>,
       <<"swap", "Swap tokens">>,
       <<"mint", "Mint tokens">>,
       <<"burn", "Burn tokens">>,
       <<"grant", "Grant permissions">>,
       <<"revoke", "Revoke permissions">>,
       <<"set", "Update settings">>,
       <<"update", "Update data">>,
       <<"claim", "Claim rewards">>,
       <<"stake", "Stake tokens">>,
       <<"unstake", "Unstake tokens">> >>

\* the if/elif chain of get_intent from entry k on, then the default
RECURSIVE IntentFromName(_, _)
IntentFromName(name, k) ==
    IF k > Len(IntentPrefixes)
    THEN UpperChar(Char(name, 1)) \o SubSeq(name, 2, Len(name))
    ELSE IF StartsWith(name, IntentPrefixes[k][1]) THEN IntentPrefixes[k][2]
    ELSE IntentFromName(name, k + 1)

\* the intent taken from the documentation text ("" when there is none)
IntentFromNatspec(natspec) ==
    IF natspec = None \/ natspec = "" THEN ""
    ELSE LET g == NoticeGroup(natspec)
         IN  IF g = None THEN ""
             ELSE Strip(UpTo(Strip(Remove(Remove(Strip(g), "*/"), "*")), "."))

\* get_intent with a name-prefix chain that starts at the second entry
get_intent_skip_first(f) ==
    IF IntentFromNatspec(f.natspec) # ""
    THEN IntentFromNatspec(f.natspec)
    ELSE IntentFromName(f.name, 2)

get_intent(f) ==
    IF IntentFromNatspec(f.natspec) # ""
    THEN IntentFromNatspec(f.natspec)
    ELSE IntentFromName(f.name, 1)

ImportantWords == {"amount", "value", "to", "recipient", "token"}

\* important_params of generate_interpolated_intent
RECURSIVE ImportantParams(_)
ImportantParams(parameters) ==
    IF parameters = <<>> THEN <<>>
    ELSE (IF ContainsAny(Lower(parameters[1].name), ImportantWords)
          THEN <<parameters[1].name>> ELSE <<>>)
         \o ImportantParams(Tail(parameters))

\* [f"{{{p}}}" for p in names]
Placeholders(names) == [k \in 1..Len(names) |-> "{" \o names[k] \o "}"]

\* names[:n]
Take(names, n) == SubSeq(names, 1, IF Len(names) < n THEN Len(names) ELSE n)

\* generate_interpolated_intent with a cap of three placeholders
generate_interpolated_intent_three(f) ==
    LET important_params == ImportantParams(f.parameters)
    IN  IF Len(f.parameters) > 0 /\ important_params # <<>>
        THEN get_intent(f) \o " "
                \o Join(Placeholders(Take(important_params, 3)), " ")
        ELSE get_intent(f)

generate_interpolated_intent(f) ==
    LET important_params == ImportantParams(f.parameters)
    IN  IF Len(f.parameters) > 0 /\ important_params # <<>>
        THEN get_intent(f) \o " "
                \o Join(Placeholders(Take(important_params, 2)), " ")
        ELSE get_intent(f)

-----------------------------------------------------------------------------
(* ERC7730Generator *)

SCHEMA_URL == "https://eips.ethereum.org/assets/eip-7730/erc7730-v1.schema.json"

\* args.chain_id, args.owner and args.contract_id are left at their defaults
chain_id == 1
Owner(name) == name
ContractId(name) == name

\* Python truth value of an optional str
Truthy(s) == s # None /\ s # ""

\* A dict whose keys are computed at run time is a list of entries in
\* insertion order; d[key] = value replaces the value of an existing key in
\* place and appends a new key.
DictKeys(d) == {d[k].key : k \in 1..Len(d)}

DictGet(d, key) == d[CHOOSE k \in 1..Len(d) : d[k].key = key].value

\* a dict assignment that keeps the value of an existing key
DictSet_keep_first(d, key, value) ==
    IF key \in DictKeys(d) THEN d
    ELSE Append(d, [key |-> key, value |-> value])

DictSet(d, key, value) ==
    IF key \in DictKeys(d)
    THEN [k \in 1..Len(d) |->
            IF d[k].key = key THEN [key |-> key, value |-> value] ELSE d[k]]
    ELSE Append(d, [key |-> key, value |-> value])

_generate_context(name, addr) ==
    "$id" :> ContractId(name) @@
    "contract" :> [deployments |->
        IF Truthy(addr) THEN <<[chainId |-> chain_id, address |-> addr]>>
        ELSE <<>>]

\* _generate_metadata looking at the first parameter of a function only
_generate_metadata_first_param(name, funcs) ==
    LET metadata == [owner |-> Owner(name), contractName |-> name,
                     info |-> [url |-> "", legalName |-> Owner(name)]]
        has_bool == \E k \in 1..Len(funcs) :
                        /\ Len(funcs[k].parameters) > 0
                        /\ funcs[k].parameters[1].type = "bool"
    IN  IF has_bool
        THEN metadata @@ "enums" :> [boolean |-> ("0" :> "False" @@ "1" :> "True")]
        ELSE metadata

_generate_metadata(name, funcs) ==
    LET metadata == [owner |-> Owner(name), contractName |-> name,
                     info |-> [url |-> "", legalName |-> Owner(name)]]
        has_bool == \E k \in 1..Len(funcs) :
                        \E j \in 1..Len(funcs[k].parameters) :
                            funcs[k].parameters[j].type = "bool"
    IN  IF has_bool
        THEN metadata @@ "enums" :> [boolean |-> ("0" :> "False" @@ "1" :> "True")]
        ELSE metadata

\* the abbreviation table of _generate_label
LabelReplacements ==
    "bps" :> "Basis Points" @@ "addr" :> "Address" @@ "amt" :> "Amount"
        @@ "num" :> "Number"

\* re.sub('([A-Z])', r' \1', s)
RECURSIVE SpaceBeforeUpper(_)
SpaceBeforeUpper(s) ==
    IF s = "" THEN ""
    ELSE (IF InChars(Char(s, 1), UpperChars) THEN " " ELSE "")
            \o Char(s, 1) \o SpaceBeforeUpper(SubSeq(s, 2, Len(s)))

IsCased(c) == InChars(c, UpperChars) \/ InChars(c, LowerChars)

\* str.title: a letter is upper-cased after a character that is not a letter
\* and lower-cased after a letter
RECURSIVE Title(_, _)
Title(s, prev_cased) ==
    IF s = "" THEN ""
    ELSE LET c == Char(s, 1)
         IN  (IF ~IsCased(c) THEN c
              ELSE IF prev_cased THEN LowerChar(c) ELSE UpperChar(c))
                \o Title(SubSeq(s, 2, Len(s)), IsCased(c))

_generate_label(p) ==
    IF Lower(p.name) \in DOMAIN LabelReplacements
    THEN LabelReplacements[Lower(p.name)]
    ELSE Title(Strip(SpaceBeforeUpper(p.name)), FALSE)

\* the parameters of f that _find_token_param accepts
IsTokenParam(p) == p.type = "address" /\ Contains(Lower(p.name), "token")

\* _find_token_param returning the last token parameter
_find_token_param_last(f) ==
    LET hits == {k \in 1..Len(f.parameters) : IsTokenParam(f.parameters[k])}
    IN  IF hits = {} THEN <<>>
        ELSE <<f.parameters[CHOOSE k \in hits : \A k2 \in hits : k >= k2]>>

\* the first token parameter of f as <<p>>, and <<>> for None
_find_token_param(f) ==
    LET hits == {k \in 1..Len(f.parameters) : IsTokenParam(f.parameters[k])}
    IN  IF hits = {} THEN <<>>
        ELSE <<f.parameters[CHOOSE k \in hits : \A k2 \in hits : k <= k2]>>

\* _generate_field_spec giving an enum field no params
_generate_field_spec_no_enum_path(p, f) ==
    IF EndsWith(p.type, "[]")
    THEN [path |-> p.name, label |-> _generate_label(p), fields |-> <<>>]
    ELSE [path |-> p.name, label |-> _generate_label(p), format |-> get_format(p)]

_generate_field_spec(p, f) ==
    IF EndsWith(p.type, "[]")
    THEN [path |-> p.name, label |-> _generate_label(p), fields |-> <<>>]
    ELSE LET field == [path |-> p.name, label |-> _generate_label(p),
                       format |-> get_format(p)]
             format_type == get_format(p)
             token_param == _find_token_param(f)
         IN  IF format_type = "tokenAmount" THEN
                 IF token_param # <<>>
                 THEN field @@ "params" :> [tokenPath |-> token_param[1].name]
                 ELSE field
             ELSE IF format_type = "addressName" THEN
                 field @@ "params" :> [types |-> <<"eoa", "contract">>,
                                       sources |-> <<"trust">>]
             ELSE IF format_type = "enum" /\ p.type = "bool" THEN
                 field @@ "params" :> [enumPath |-> "$.metadata.enums.boolean"]
             ELSE field

_generate_format_for_function(f) ==
    LET format_spec ==
            [intent |-> get_intent(f),
             fields |-> [k \in 1..Len(f.parameters) |->
                            _generate_field_spec(f.parameters[k], f)]]
    IN  IF Len(f.parameters) > 0
        THEN format_spec @@
                "interpolatedIntent" :> generate_interpolated_intent(f)
        ELSE format_spec

\* the loop of _generate_display over funcs, starting from the dict formats
RECURSIVE DisplayFormats(_, _)
DisplayFormats(formats, funcs) ==
    IF funcs = <<>> THEN formats
    ELSE DisplayFormats(
            DictSet(formats, get_signature(funcs[1]),
                    _generate_format_for_function(funcs[1])),
            Tail(funcs))

_generate_display(funcs) == [formats |-> DisplayFormats(<<>>, funcs)]

generate(name, funcs, addr) ==
    "$schema" :> SCHEMA_URL @@
    "context" :> _generate_context(name, addr) @@
    "metadata" :> _generate_metadata(name, funcs) @@
    "display" :> _generate_display(funcs)

-----------------------------------------------------------------------------
(* SolidityParser *)

\* the least element of a non-empty set of positions
Min(S) == CHOOSE k \in S : \A k2 \in S : k <= k2

\* CONTRACT_PATTERN = contract\s+(\w+)\s+(?:is\s+)?[{\s] matches s from
\* position p.  The name is followed by whitespace and then by a brace, by
\* one more whitespace character, or by "is", whitespace, and a brace or one
\* more whitespace character.
ContractMatchAt(s, p) ==
    /\ At(s, p, "contract")
    /\ LET b == SkipSpace(s, p + 8)
           c == SkipWord(s, b)
           d == SkipSpace(s, c)
           e == SkipSpace(s, d + 2)
       IN  /\ b > p + 8
           /\ c > b
           /\ d > c
           /\ \/ At(s, d, "{")
              \/ d - c >= 2
              \/ /\ At(s, d, "is")
                 /\ e > d + 2
                 /\ (At(s, e, "{") \/ e - (d + 2) >= 2)

\* CONTRACT_PATTERN.search(s): <<group(1)>> of the leftmost match, <<>> if none
CONTRACT_PATTERN(s) ==
    LET starts == {p \in 1..Len(s) : ContractMatchAt(s, p)}
    IN  IF starts = {} THEN <<>>
        ELSE LET b == SkipSpace(s, Min(starts) + 8)
             IN  <<SubSeq(s, b, SkipWord(s, b) - 1)>>

\* the position of "(" when function\s+(\w+)\s*\( matches s from p, else 0
FunctionOpenParen(s, p) ==
    LET b == SkipSpace(s, p + 8)
        c == SkipWord(s, b)
        q == SkipSpace(s, c)
    IN  IF At(s, p, "function") /\ b > p + 8 /\ c > b /\ At(s, q, "(")
        THEN q ELSE 0

\* the positions r > q of a ")" that \)\s*(external|public) matches
FunctionClosers(s, q) ==
    {r \in (q + 1)..Len(s) :
        /\ Char(s, r) = ")"
        /\ LET v == SkipSpace(s, r + 1)
           IN  At(s, v, "external") \/ At(s, v, "public")}

FunctionMatchAt(s, p) ==
    FunctionOpenParen(s, p) > 0 /\ FunctionClosers(s, FunctionOpenParen(s, p)) # {}

\* FUNCTION_PATTERN.search(s): <<[name, params, visibility]>> of the leftmost
\* match, with the shortest parameter text (.*? is lazy), and <<>> if none
FUNCTION_PATTERN(s) ==
    LET starts == {p \in 1..Len(s) : FunctionMatchAt(s, p)}
    IN  IF starts = {} THEN <<>>
        ELSE LET p == Min(starts)
                 b == SkipSpace(s, p + 8)
                 q == FunctionOpenParen(s, p)
                 r == Min(FunctionClosers(s, q))
             IN  <<[name |-> SubSeq(s, b, SkipWord(s, b) - 1),
                    params |-> SubSeq(s, q + 1, r - 1),
                    visibility |-> IF At(s, SkipSpace(s, r + 1), "external")
                                   THEN "external" ELSE "public"]>>

\* PARAM_PATTERN = (\w+(?:\[\])?)\s+(\w+) matches s from position p
ParamTypeEnd(s, p) ==
    LET e == SkipWord(s, p) IN IF At(s, e, "[]") THEN e + 2 ELSE e

ParamMatchAt(s, p) ==
    /\ IsWord(Char(s, p))
    /\ LET g == SkipSpace(s, ParamTypeEnd(s, p))
       IN  g > ParamTypeEnd(s, p) /\ g <= Len(s) /\ IsWord(Char(s, g))

\* PARAM_PATTERN.search(s): <<[type, name]>> of the leftmost match, <<>> if none
PARAM_PATTERN(s) ==
    LET starts == {p \in 1..Len(s) : ParamMatchAt(s, p)}
    IN  IF starts = {} THEN <<>>
        ELSE LET p == Min(starts)
                 g == SkipSpace(s, ParamTypeEnd(s, p))
             IN  <<[type |-> SubSeq(s, p, ParamTypeEnd(s, p) - 1),
                    name |-> SubSeq(s, g, SkipWord(s, g) - 1)]>>

\* the loop of _get_natspec from line i upwards (lines are numbered from 1)
RECURSIVE NatspecLoop(_, _, _, _)
NatspecLoop(ls, i, in_comment, comment_lines) ==
    IF i < 1 THEN comment_lines
    ELSE LET line == Strip(ls[i])
         IN  IF EndsWith(line, "*/")
             THEN NatspecLoop(ls, i - 1, TRUE, <<line>> \o comment_lines)
             ELSE IF in_comment THEN
                 IF StartsWith(line, "/**") THEN <<line>> \o comment_lines
                 ELSE NatspecLoop(ls, i - 1, TRUE, <<line>> \o comment_lines)
             ELSE IF line # "" /\ ~StartsWith(line, "//") THEN comment_lines
             ELSE NatspecLoop(ls, i - 1, in_comment, comment_lines)

_get_natspec(ls, func_line_idx) ==
    LET comment_lines == NatspecLoop(ls, func_line_idx - 1, FALSE, <<>>)
    IN  IF comment_lines # <<>> THEN Join(comment_lines, "\n") ELSE None

\* the number of occurrences of the character c in s
RECURSIVE Count(_, _)
Count(s, c) ==
    IF s = "" THEN 0
    ELSE (IF Char(s, 1) = c THEN 1 ELSE 0) + Count(SubSeq(s, 2, Len(s)), c)

\* the loop of _get_function_text from line i on: the lines it collects
RECURSIVE FunctionTextLoop(_, _, _, _, _)
FunctionTextLoop(ls, i, paren_count, started, func_lines) ==
    IF i > Len(ls) THEN func_lines
    ELSE LET line == ls[i]
             count == paren_count + Count(line, "(") - Count(line, ")")
             now_started == started \/ Contains(line, "(")
         IN  IF now_started /\ count = 0
                    /\ (Contains(line, "{") \/ Contains(line, ";"))
             THEN Append(func_lines, line)
             ELSE FunctionTextLoop(ls, i + 1, count, now_started,
                                   Append(func_lines, line))

\* _get_function_text without the stop test: every line to the end of the source
_get_function_text_to_end(ls, start_idx) ==
    Join(SubSeq(ls, start_idx, Len(ls)), " ")

_get_function_text(ls, start_idx) ==
    Join(FunctionTextLoop(ls, start_idx, 0, FALSE, <<>>), " ")

\* the loop of _split_parameters over the characters of s from position k
RECURSIVE SplitLoop(_, _, _, _, _)
SplitLoop(s, k, depth, current, parts) ==
    IF k > Len(s)
    THEN IF current # "" THEN Append(parts, current) ELSE parts
    ELSE LET char == Char(s, k)
         IN  IF char = "(" \/ char = "["
             THEN SplitLoop(s, k + 1, depth + 1, current \o char, parts)
             ELSE IF char = ")" \/ char = "]"
             THEN SplitLoop(s, k + 1, depth - 1, current \o char, parts)
             ELSE IF char = "," /\ depth = 0
             THEN SplitLoop(s, k + 1, depth, "", Append(parts, current))
             ELSE SplitLoop(s, k + 1, depth, current \o char, parts)

\* _split_parameters splitting at every comma
_split_parameters_every_comma(params_str) ==
    IF params_str = "" THEN <<>>
    ELSE IF EndsWith(params_str, ",")
    THEN Split(SubSeq(params_str, 1, Len(params_str) - 1), ",")
    ELSE Split(params_str, ",")

_split_parameters(params_str) == SplitLoop(params_str, 1, 0, "", <<>>)

LocationKeywords == {"memory", "calldata", "storage"}

\* \bword\b matches s at position k
WholeWordAt(s, k, word) ==
    /\ At(s, k, word)
    /\ (k = 1 \/ ~IsWord(Char(s, k - 1)))
    /\ (k + Len(word) > Len(s) \/ ~IsWord(Char(s, k + Len(word))))

\* re.sub(r'\b(memory|calldata|storage)\b', '', s), from position k on
RECURSIVE RemoveLocation(_, _)
RemoveLocation(s, k) ==
    IF k > Len(s) THEN ""
    ELSE IF \E w \in LocationKeywords : WholeWordAt(s, k, w)
    THEN LET w == CHOOSE w \in LocationKeywords : WholeWordAt(s, k, w)
         IN  RemoveLocation(s, k + Len(w))
    ELSE Char(s, k) \o RemoveLocation(s, k + 1)

\* the loop of _parse_parameters over the split parts
RECURSIVE ParseParts(_)
ParseParts(parts) ==
    IF parts = <<>> THEN <<>>
    ELSE LET part == Strip(parts[1])
             match == PARAM_PATTERN(Strip(RemoveLocation(part, 1)))
         IN  (IF part # "" /\ match # <<>>
              THEN <<FunctionParameter(match[1].name, match[1].type)>>
              ELSE <<>>)
             \o ParseParts(Tail(parts))

_parse_parameters(params_str) ==
    IF Strip(params_str) = "" THEN <<>>
    ELSE ParseParts(_split_parameters(params_str))

\* the candidate test of _parse_functions
IsCandidate(line) ==
    Contains(line, "function")
        /\ (Contains(line, "external") \/ Contains(line, "public"))

\* the body of the loop of _parse_functions for line i: the records it
\* appends to self.functions (none or one)
ParseLine(ls, i) ==
    IF ~IsCandidate(ls[i]) THEN <<>>
    ELSE LET natspec == _get_natspec(ls, i)
             func_text == _get_function_text(ls, i)
             func_match == FUNCTION_PATTERN(func_text)
         IN  IF func_match = <<>> THEN <<>>
             ELSE IF Contains(func_text, "view") \/ Contains(func_text, "pure")
             THEN <<>>
             ELSE <<FunctionSignature(func_match[1].name,
                                      _parse_parameters(func_match[1].params),
                                      func_match[1].visibility, natspec)>>

-----------------------------------------------------------------------------
(* Inputs: source files *)

\* A source file is written from a header and a list of member blocks.  A
\* header records the names of the contracts it declares, in order; a block
\* records the function it declares (<<>> when it declares none): its name,
\* its mutability, its visibility and the first sentence of its own @notice
\* text ("" when it has none).  Every function name belongs to one block.
MaxDecls == 2

Headers ==
    { [text |-> <<"contract Vault {">>, contracts |-> <<"Vault">>],
      [text |-> <<"contract Vault{">>, contracts |-> <<"Vault">>],
      [text |-> <<"contract Vault is Ownable {">>, contracts |-> <<"Vault">>],
      [text |-> <<"contract Vault", "{">>, contracts |-> <<"Vault">>],
      [text |-> <<"contract Base is Ownable {", "}", "contract Vault {">>,
       contracts |-> <<"Base", "Vault">>],
      [text |-> <<"interface IVault {">>, contracts |-> <<>>],
      [text |-> <<"interface IVault {", "  // called by the vault contract only">>,
       contracts |-> <<>>] }

Decl(name, mutability, visibility, notice) ==
    <<[name |-> name, mutability |-> mutability, visibility |-> visibility,
       notice |-> notice]>>

Blocks ==
    { [text |-> <<"  function transfer(address to, uint256 amount) external returns (bool) {}">>,
       decl |-> Decl("transfer", "nonpayable", "external", "")],
      [text |-> <<"  function balanceOf(address owner) public view returns (uint256) {}">>,
       decl |-> Decl("balanceOf", "view", "public", "")],
      [text |-> <<"  function totalSupply() external",
                  "    view returns (uint256) {}">>,
       decl |-> Decl("totalSupply", "view", "external", "")],
      [text |-> <<"  function version() public",
                  "    pure returns (uint256) {}">>,
       decl |-> Decl("version", "pure", "public", "")],
      [text |-> <<"  function peek() public // cheap; no gas",
                  "    view returns (uint256) {}">>,
       decl |-> Decl("peek", "view", "public", "")],
      [text |-> <<"  /**",
                  "   * @notice Moves funds.",
                  "   */",
                  "  function depositAll(address token, uint256 amount) external {}">>,
       decl |-> Decl("depositAll", "nonpayable", "external", "Moves funds")],
      [text |-> <<"  /** @notice Sends value. */",
                  "  function withdrawTo(address to) external {}">>,
       decl |-> Decl("withdrawTo", "nonpayable", "external", "Sends value")],
      [text |-> <<"  // this function is public",
                  "  function setOwner(address newOwner) external {}">>,
       decl |-> Decl("setOwner", "nonpayable", "external", "")],
      [text |-> <<"  // external function; owner only",
                  "  function setFee(uint256 bps) external",
                  "    onlyOwner {}">>,
       decl |-> Decl("setFee", "nonpayable", "external", "")],
      [text |-> <<"  function _auth() internal {}">>,
       decl |-> Decl("_auth", "nonpayable", "internal", "")] }

\* the sequences over S of length at most n
RECURSIVE SeqsUpTo(_, _)
SeqsUpTo(S, n) ==
    IF n = 0 THEN {<<>>}
    ELSE SeqsUpTo(S, n - 1) \cup
         {Append(q, x) : q \in {q2 \in SeqsUpTo(S, n - 1) : Len(q2) = n - 1}, x \in S}

Programs == {[header |-> h, body |-> b] : h \in Headers, b \in SeqsUpTo(Blocks, MaxDecls)}

\* the lines of all blocks of body, in order
RECURSIVE BodyText(_)
BodyText(body) ==
    IF body = <<>> THEN <<>> ELSE body[1].text \o BodyText(Tail(body))

\* the text of the source file written from program
Render(program) ==
    Join(program.header.text \o BodyText(program.body) \o <<"}">>, "\n")

\* args.address: absent, or a 42-character address
Addresses == {None, "0x00000000000000000000000000000000000000a1"}

NoProgram == [header |-> [text |-> <<>>, contracts |-> <<>>], body |-> <<>>]
NoParam == FunctionParameter("", "")

-----------------------------------------------------------------------------
(* main of generate_erc7730.py *)

Init ==
    /\ input \in Programs
    /\ address \in Addresses
    /\ content = Render(input)
    /\ lines = <<>>
    /\ idx = 0
    /\ contract_name = None
    /\ functions = <<>>
    /\ descriptor = <<>>
    /\ output = <<>>
    /\ exit_status = <<>>
    /\ pc = "parse"
    /\ param = NoParam
    /\ fmt = None
    /\ loop_natspec = None
    /\ loop_func_text = None
    /\ split_arg = ""
    /\ split_parts = <<>>
    /\ files = <<>>
    /\ validators = <<>>
    /\ all_passed = TRUE

\* SolidityParser.parse up to the call of _parse_functions; a ValueError is
\* caught by main, which exits with status 1
ParseContract ==
    /\ pc = "parse"
    /\ LET contract_match == CONTRACT_PATTERN(content)
       IN  IF contract_match # <<>>
           THEN /\ contract_name' = contract_match[1]
                /\ lines' = Split(content, "\n")
                /\ idx' = 1
                /\ pc' = "scan"
                /\ UNCHANGED exit_status
           ELSE /\ pc' = "exit"
                /\ exit_status' = <<1>>
                /\ UNCHANGED <<contract_name, lines, idx>>
    /\ UNCHANGED <<input, address, content, functions, descriptor, output, param, fmt>>
    /\ UNCHANGED <<loop_vars, split_vars, checker_vars>>

\* one iteration of the loop of _parse_functions
ParseFunctions ==
    /\ pc = "scan"
    /\ idx <= Len(lines)
    /\ functions' = functions \o ParseLine(lines, idx)
    /\ loop_natspec' = IF IsCandidate(lines[idx]) THEN _get_natspec(lines, idx)
                       ELSE loop_natspec
    /\ loop_func_text' = IF IsCandidate(lines[idx])
                         THEN _get_function_text(lines, idx)
                         ELSE loop_func_text
    /\ idx' = idx + 1
    /\ UNCHANGED <<input, address, content, lines, contract_name, descriptor,
                   output, exit_status, pc, param, fmt>>
    /\ UNCHANGED <<split_vars, checker_vars>>

\* the loop is over: parse returns to main
ParseReturn ==
    /\ pc = "scan"
    /\ idx > Len(lines)
    /\ pc' = "generate"
    /\ UNCHANGED <<input, address, content, lines, idx, contract_name, functions,
                   descriptor, output, exit_status, param, fmt>>
    /\ UNCHANGED <<loop_vars, split_vars, checker_vars>>

\* ERC7730Generator(...).generate()
Generate ==
    /\ pc = "generate"
    /\ descriptor' = generate(contract_name, functions, address)
    /\ pc' = "write"
    /\ UNCHANGED <<input, address, content, lines, idx, contract_name, functions,
                   output, exit_status, param, fmt>>
    /\ UNCHANGED <<loop_vars, split_vars, checker_vars>>

\* main writes the descriptor to the default output path and returns 0
WriteOutput ==
    /\ pc = "write"
    /\ output' = <<[path |-> "calldata-" \o Lower(contract_name) \o ".json",
                    data |-> descriptor]>>
    /\ exit_status' = <<0>>
    /\ pc' = "done"
    /\ UNCHANGED <<input, address, content, lines, idx, contract_name, functions,
                   descriptor, param, fmt>>
    /\ UNCHANGED <<loop_vars, split_vars, checker_vars>>

Next == ParseContract \/ ParseFunctions \/ ParseReturn \/ Generate \/ WriteOutput

Spec == Init /\ [][Next]_vars

-----------------------------------------------------------------------------
(* Inputs: function records *)

MaxParams == 2
MaxFuncs == 2

ParamPool ==
    { FunctionParameter("to", "address"),
      FunctionParameter("amount", "uint256"),
      FunctionParameter("token", "address"),
      FunctionParameter("rewardToken", "address"),
      FunctionParameter("feeToken", "IERC20"),
      FunctionParameter("flag", "bool"),
      FunctionParameter("amounts", "uint256[]"),
      FunctionParameter("deadline", "uint256") }

GenNames == {"transfer", "transferFrom", "setOwner", "unstake", "pause"}

GenDocs == {None, "/**\n* @notice Sends value.\n*/", "/**\n* @dev Internal.\n*/"}

\* the records with at most MaxParams parameters from the pool
Records ==
    {FunctionSignature(n, ps, "external", d) :
        n \in GenNames, ps \in SeqsUpTo(ParamPool, MaxParams), d \in GenDocs}

\* records for the lists of several functions
RecordCatalogue ==
    { FunctionSignature("transfer",
        <<FunctionParameter("to", "address"),
          FunctionParameter("amount", "uint256")>>, "external", None),
      FunctionSignature("transfer",
        <<FunctionParameter("recipient", "address"),
          FunctionParameter("value", "uint256")>>, "public",
        "/**\n* @notice Sends value.\n*/"),
      FunctionSignature("setFlag",
        <<FunctionParameter("flag", "bool")>>, "external", None),
      FunctionSignature("pause", <<>>, "external", None),
      FunctionSignature("swap",
        <<FunctionParameter("tokenIn", "address"),
          FunctionParameter("tokenOut", "address"),
          FunctionParameter("amountIn", "uint256"),
          FunctionParameter("to", "address")>>, "external", None),
      FunctionSignature("setFlags",
        <<FunctionParameter("flags", "bool[]"),
          FunctionParameter("amounts", "uint256[]")>>, "external", None),
      FunctionSignature("approve",
        <<FunctionParameter("token", "IERC20"),
          FunctionParameter("amount", "uint256")>>, "external", None) }

\* ERC7730Generator is constructed with a list of function records
InitGen ==
    /\ \/ /\ functions \in {<<f>> : f \in Records}
          /\ address = None
       \/ /\ functions \in SeqsUpTo(RecordCatalogue, MaxFuncs)
          /\ address \in Addresses
    /\ input = NoProgram
    /\ content = ""
    /\ lines = <<>>
    /\ idx = 0
    /\ contract_name = "Vault"
    /\ descriptor = <<>>
    /\ output = <<>>
    /\ exit_status = <<>>
    /\ pc = "generate"
    /\ param = NoParam
    /\ fmt = None
    /\ loop_natspec = None
    /\ loop_func_text = None
    /\ split_arg = ""
    /\ split_parts = <<>>
    /\ files = <<>>
    /\ validators = <<>>
    /\ all_passed = TRUE

NextGen == Generate

SpecGen == InitGen /\ [][NextGen]_vars

-----------------------------------------------------------------------------
(* Inputs: parameters *)

FormatTypes ==
    {"address", "uint256", "int8", "interval", "bytes", "bytes32", "string",
     "bool", "uint256[]", "address[]", "IERC20"}

FormatNames ==
    {"amount", "to", "deadline", "amountDeadline", "lockPeriod", "periodTime",
     "Timestamp", "VALUE", "totalBalance", "bps", "x"}

InitFormat ==
    /\ param \in {FunctionParameter(n, t) : n \in FormatNames, t \in FormatTypes}
    /\ fmt = None
    /\ pc = "classify"
    /\ input = NoProgram
    /\ address = None
    /\ content = ""
    /\ lines = <<>>
    /\ idx = 0
    /\ contract_name = None
    /\ functions = <<>>
    /\ descriptor = <<>>
    /\ output = <<>>
    /\ exit_status = <<>>
    /\ loop_natspec = None
    /\ loop_func_text = None
    /\ split_arg = ""
    /\ split_parts = <<>>
    /\ files = <<>>
    /\ validators = <<>>
    /\ all_passed = TRUE

\* param.get_format()
GetFormat ==
    /\ pc = "classify"
    /\ fmt' = get_format(param)
    /\ pc' = "classified"
    /\ UNCHANGED <<input, address, content, lines, idx, contract_name, functions,
                   descriptor, output, exit_status, param>>
    /\ UNCHANGED <<loop_vars, split_vars, checker_vars>>

NextFormat == GetFormat

SpecFormat == InitFormat /\ [][NextFormat]_vars

-----------------------------------------------------------------------------
(* Inputs: parameter lists *)

MaxLen == 5

SplitChars == {"a", ",", "(", ")", "[", "]"}

\* the texts over SplitChars of length at most n
RECURSIVE TextsUpTo(_)
TextsUpTo(n) ==
    IF n = 0 THEN {""}
    ELSE TextsUpTo(n - 1) \cup
         {s \o c : s \in {s2 \in TextsUpTo(n - 1) : Len(s2) = n - 1}, c \in SplitChars}

InitSplit ==
    /\ split_arg \in TextsUpTo(MaxLen)
    /\ split_parts = <<>>
    /\ pc = "split"
    /\ input = NoProgram
    /\ address = None
    /\ content = ""
    /\ lines = <<>>
    /\ idx = 0
    /\ contract_name = None
    /\ functions = <<>>
    /\ descriptor = <<>>
    /\ output = <<>>
    /\ exit_status = <<>>
    /\ param = NoParam
    /\ fmt = None
    /\ loop_natspec = None
    /\ loop_func_text = None
    /\ files = <<>>
    /\ validators = <<>>
    /\ all_passed = TRUE

\* param_parts = self._split_parameters(params_str)
SplitParameters ==
    /\ pc = "split"
    /\ split_parts' = _split_parameters(split_arg)
    /\ pc' = "split_done"
    /\ UNCHANGED <<input, address, content, lines, idx, contract_name, functions,
                   descriptor, output, exit_status, param, fmt, split_arg>>
    /\ UNCHANGED <<loop_vars, checker_vars>>

NextSplit == SplitParameters

SpecSplit == InitSplit /\ [][NextSplit]_vars

-----------------------------------------------------------------------------
(* ERC7730Validator *)

\* d.get(key, default)
Get(d, key, default) == IF key \in DOMAIN d THEN d[key] ELSE default

\* the state of a validator after __init__
NewValidator == [errors |-> <<>>, warnings |-> <<>>, info |-> <<>>]

Error(v, msg) == [v EXCEPT !.errors = Append(@, msg)]
Warning(v, msg) == [v EXCEPT !.warnings = Append(@, msg)]
Info(v, msg) == [v EXCEPT !.info = Append(@, msg)]

REQUIRED_FIELDS == [root |-> <<"$schema", "context", "display">>]

RECURSIVE StructureLoop(_, _, _)
StructureLoop(v, d, fields) ==
    IF fields = <<>> THEN v
    ELSE StructureLoop(
            IF fields[1] \notin DOMAIN d
            THEN Error(v, "Missing required field: " \o fields[1]) ELSE v,
            d, Tail(fields))

_check_structure(v, d) == StructureLoop(v, d, REQUIRED_FIELDS.root)

\* the URL _check_schema_url expects
expected == "https://eips.ethereum.org/assets/eip-7730/erc7730-v1.schema.json"

_check_schema_url(v, d) ==
    LET actual == Get(d, "$schema", "None")
    IN  IF actual # expected
        THEN Error(v, "Incorrect schema URL.\n  Expected: " \o expected
                        \o "\n  Got: " \o actual)
        ELSE v

ZeroAddress == "0x0000000000000000000000000000000000000000"

\* the body of the loop of _check_context for deployment number i (from 0)
CheckDeployment(v, i, deployment) ==
    LET v1 == IF "chainId" \notin DOMAIN deployment
              THEN Error(v, "Deployment " \o ToString(i) \o " missing chainId")
              ELSE v
    IN  IF "address" \notin DOMAIN deployment
        THEN Error(v1, "Deployment " \o ToString(i) \o " missing address")
        ELSE LET addr == deployment["address"]
                 v2 == IF addr = ZeroAddress
                       THEN Warning(v1, "Deployment " \o ToString(i)
                                \o " uses zero address (placeholder)")
                       ELSE v1
             IN  IF ~StartsWith(addr, "0x") \/ Len(addr) # 42
                 THEN Error(v2, "Deployment " \o ToString(i)
                            \o " has invalid address format: " \o addr)
                 ELSE v2

RECURSIVE DeploymentsLoop(_, _, _)
DeploymentsLoop(v, deployments, k) ==
    IF k > Len(deployments) THEN v
    ELSE DeploymentsLoop(CheckDeployment(v, k - 1, deployments[k]),
                         deployments, k + 1)

_check_context(v, d) ==
    LET context == Get(d, "context", <<>>)
        v1 == IF "$id" \notin DOMAIN context
              THEN Error(v, "Missing context.$id") ELSE v
        v2 == IF "contract" \notin DOMAIN context /\ "eip712" \notin DOMAIN context
              THEN Error(v1, "Context must have either 'contract' or 'eip712'")
              ELSE v1
    IN  IF "contract" \in DOMAIN context
        THEN LET deployments == Get(context["contract"], "deployments", <<>>)
             IN  IF Len(deployments) = 0
                 THEN Warning(v2, "No deployments specified in context.contract")
                 ELSE DeploymentsLoop(v2, deployments, 1)
        ELSE v2

\* the fields of every format of the descriptor, in order
RECURSIVE AllFields(_)
AllFields(formats) ==
    IF formats = <<>> THEN <<>>
    ELSE Get(formats[1].value, "fields", <<>>) \o AllFields(Tail(formats))

_has_token_amount_formats(d) ==
    LET fields == AllFields(Get(Get(d, "display", <<>>), "formats", <<>>))
    IN  \E k \in 1..Len(fields) : Get(fields[k], "format", "None") = "tokenAmount"

_check_metadata(v, d) ==
    LET metadata == Get(d, "metadata", <<>>)
    IN  IF DOMAIN metadata = {}
        THEN Warning(v, "No metadata section (optional but recommended)")
        ELSE LET v1 == IF "owner" \notin DOMAIN metadata
                       THEN Warning(v, "metadata.owner not specified") ELSE v
                 v2 == IF "contractName" \notin DOMAIN metadata
                       THEN Warning(v1, "metadata.contractName not specified")
                       ELSE v1
                 info == Get(metadata, "info", <<>>)
                 v3 == IF Get(info, "url", "") = ""
                       THEN Info(v2, "Consider adding metadata.info.url") ELSE v2
             IN  IF _has_token_amount_formats(d) /\ "token" \notin DOMAIN metadata
                 THEN Info(v3, "Functions use tokenAmount format. "
                    \o "Consider adding metadata.token with name, ticker, decimals")
                 ELSE v3

_check_field(v, signature, index, field) ==
    LET field_id == signature \o " field[" \o ToString(index) \o "]"
        v1 == IF "path" \notin DOMAIN field
              THEN Error(v, field_id \o ": Missing 'path'") ELSE v
        v2 == IF "format" \notin DOMAIN field /\ "fields" \notin DOMAIN field
              THEN Error(v1, field_id
                    \o ": Must have either 'format' or 'fields' (for containers)")
              ELSE v1
        format == Get(field, "format", "None")
        params == Get(field, "params", <<>>)
        v3 == IF format = "tokenAmount" /\ "tokenPath" \notin DOMAIN params
              THEN Info(v2, field_id \o ": tokenAmount without tokenPath parameter. "
                            \o "Consider linking to token address parameter")
              ELSE v2
        v4 == IF format = "addressName" /\ "types" \notin DOMAIN params
              THEN Info(v3, field_id \o ": addressName without 'types' parameter")
              ELSE v3
    IN  IF format = "enum" /\ "enumPath" \notin DOMAIN params
        THEN Error(v4, field_id \o ": enum format requires 'enumPath' parameter")
        ELSE v4

RECURSIVE FieldsLoop(_, _, _, _)
FieldsLoop(v, signature, fields, k) ==
    IF k > Len(fields) THEN v
    ELSE FieldsLoop(_check_field(v, signature, k - 1, fields[k]),
                    signature, fields, k + 1)

_check_format(v, signature, format_def) ==
    LET v1 == IF "intent" \notin DOMAIN format_def
              THEN Error(v, signature \o ": Missing 'intent'") ELSE v
    IN  IF "fields" \notin DOMAIN format_def
        THEN Warning(v1, signature \o ": Missing 'fields' array")
        ELSE FieldsLoop(v1, signature, format_def["fields"], 1)

RECURSIVE FormatsLoop(_, _)
FormatsLoop(v, formats) ==
    IF formats = <<>> THEN v
    ELSE FormatsLoop(_check_format(v, formats[1].key, formats[1].value),
                     Tail(formats))

_check_display(v, d) ==
    LET display == Get(d, "display", <<>>)
    IN  IF "formats" \notin DOMAIN display
        THEN Error(v, "Missing display.formats")
        ELSE LET formats == display["formats"]
             IN  IF Len(formats) = 0
                 THEN Warning(v, "No formats defined in display.formats")
                 ELSE FormatsLoop(
                        Info(v, "Found " \o ToString(Len(formats))
                                    \o " function format(s)"),
                        formats)

\* the first loop of _check_best_practices
RECURSIVE InterpolatedLoop(_, _)
InterpolatedLoop(v, formats) ==
    IF formats = <<>> THEN v
    ELSE InterpolatedLoop(
            IF /\ "interpolatedIntent" \notin DOMAIN formats[1].value
               /\ Len(Get(formats[1].value, "fields", <<>>)) > 0
            THEN Info(v, formats[1].key
                        \o ": Consider adding 'interpolatedIntent' for better UX")
            ELSE v,
            Tail(formats))

RECURSIVE LabelFieldsLoop(_, _, _)
LabelFieldsLoop(v, sig, fields) ==
    IF fields = <<>> THEN v
    ELSE LabelFieldsLoop(
            IF "label" \notin DOMAIN fields[1] /\ "format" \in DOMAIN fields[1]
            THEN Warning(v, sig \o ": Field '" \o Get(fields[1], "path", "?")
                            \o "' missing label")
            ELSE v,
            sig, Tail(fields))

\* the second loop of _check_best_practices
RECURSIVE LabelLoop(_, _)
LabelLoop(v, formats) ==
    IF formats = <<>> THEN v
    ELSE LabelLoop(
            LabelFieldsLoop(v, formats[1].key,
                            Get(formats[1].value, "fields", <<>>)),
            Tail(formats))

_check_best_practices(v, d) ==
    LET formats == Get(Get(d, "display", <<>>), "formats", <<>>)
    IN  LabelLoop(InterpolatedLoop(v, formats), formats)

\* A file of the batch is [path, status, data]: status tells what open and
\* json.load do with it ("missing": FileNotFoundError, "malformed":
\* JSONDecodeError with message data, "loaded": the document data).  A
\* document is what json.load returns: objects are dicts, the descriptor's
\* formats object is a dict in the order of its keys in the file.
\* validate returns the validator after the run, with the returned value as
\* its field passed.
validate(file) ==
    IF file.status = "missing"
    THEN Error(NewValidator, "File not found: " \o file.path) @@ "passed" :> FALSE
    ELSE IF file.status = "malformed"
    THEN Error(NewValidator, "Invalid JSON: " \o file.data) @@ "passed" :> FALSE
    ELSE LET d == file.data
             v == _check_best_practices(
                    _check_display(
                        _check_metadata(
                            _check_context(
                                _check_schema_url(
                                    _check_structure(NewValidator, d), d), d), d), d), d)
         IN  v @@ "passed" :> (Len(v.errors) = 0)

-----------------------------------------------------------------------------
(* Inputs: descriptor files *)

MaxFiles == 2

\* a generated descriptor with a deployment
GoodDescriptor ==
    generate("Vault",
        <<FunctionSignature("transfer",
            <<FunctionParameter("to", "address"),
              FunctionParameter("amount", "uint256")>>, "external", None),
          FunctionSignature("setFlag",
            <<FunctionParameter("flag", "bool")>>, "external", None)>>,
        "0x00000000000000000000000000000000000000a1")

\* a generated descriptor without deployment and without functions
BareDescriptor == generate("Vault", <<>>, None)

\* a document without context.$id whose deployment address is "0xABC"
ShortAddressDescriptor ==
    "$schema" :> SCHEMA_URL @@
    "context" :> [contract |->
        [deployments |-> <<[chainId |-> 1, address |-> "0xABC"]>>]] @@
    "metadata" :> _generate_metadata("Vault", <<>>) @@
    "display" :> [formats |-> <<>>]

\* a document that breaks the rules of formats, fields and deployments
BrokenFieldsDescriptor ==
    "$schema" :> "https://example.org/schema.json" @@
    "context" :> ("$id" :> "Vault" @@ "contract" :>
        [deployments |-> <<[address |-> ZeroAddress], [chainId |-> 1]>>]) @@
    "display" :> [formats |->
        <<[key |-> "f(bool,uint256,address)",
           value |-> [fields |-> <<[label |-> "Flag"],
                                   [path |-> "flag", format |-> "enum"],
                                   [path |-> "amount", format |-> "tokenAmount"],
                                   [path |-> "to", format |-> "addressName"]>>]],
          [key |-> "g()", value |-> [intent |-> "G"]]>>]

\* the document {}
EmptyDescriptor == <<>>

CheckerFiles ==
    { [path |-> "good.json", status |-> "loaded", data |-> GoodDescriptor],
      [path |-> "bare.json", status |-> "loaded", data |-> BareDescriptor],
      [path |-> "short.json", status |-> "loaded", data |-> ShortAddressDescriptor],
      [path |-> "broken.json", status |-> "loaded", data |-> BrokenFieldsDescriptor],
      [path |-> "empty.json", status |-> "loaded", data |-> EmptyDescriptor],
      [path |-> "absent.json", status |-> "missing", data |-> ""],
      [path |-> "text.json", status |-> "malformed",
       data |-> "Expecting value: line 1 column 1 (char 0)"] }

-----------------------------------------------------------------------------
(* main of validate_erc7730.py *)

\* nargs="+": at least one file
InitChecker ==
    /\ files \in SeqsUpTo(CheckerFiles, MaxFiles) \ {<<>>}
    /\ validators = <<>>
    /\ all_passed = TRUE
    /\ pc = "validate"
    /\ exit_status = <<>>
    /\ input = NoProgram
    /\ address = None
    /\ content = ""
    /\ lines = <<>>
    /\ idx = 0
    /\ contract_name = None
    /\ functions = <<>>
    /\ descriptor = <<>>
    /\ output = <<>>
    /\ param = NoParam
    /\ fmt = None
    /\ loop_natspec = None
    /\ loop_func_text = None
    /\ split_arg = ""
    /\ split_parts = <<>>

\* one iteration of the loop of main, keeping the verdict of the last file only
ValidateFile_last_file ==
    /\ pc = "validate"
    /\ Len(validators) < Len(files)
    /\ LET validator == validate(files[Len(validators) + 1])
       IN  /\ validators' = Append(validators, validator)
           /\ all_passed' = validator.passed
    /\ UNCHANGED <<input, address, content, lines, idx, contract_name, functions,
                   descriptor, output, exit_status, pc, param, fmt, files>>
    /\ UNCHANGED <<loop_vars, split_vars>>

\* one iteration of the loop of main
ValidateFile ==
    /\ pc = "validate"
    /\ Len(validators) < Len(files)
    /\ LET validator == validate(files[Len(validators) + 1])
       IN  /\ validators' = Append(validators, validator)
           /\ all_passed' = IF ~validator.passed THEN FALSE ELSE all_passed
    /\ UNCHANGED <<input, address, content, lines, idx, contract_name, functions,
                   descriptor, output, exit_status, pc, param, fmt, files>>
    /\ UNCHANGED <<loop_vars, split_vars>>

\* sys.exit(0 if all_passed else 1)
ExitChecker ==
    /\ pc = "validate"
    /\ Len(validators) = Len(files)
    /\ exit_status' = <<IF all_passed THEN 0 ELSE 1>>
    /\ pc' = "exit"
    /\ UNCHANGED <<input, address, content, lines, idx, contract_name, functions,
                   descriptor, output, param, fmt>>
    /\ UNCHANGED <<loop_vars, split_vars, checker_vars>>

NextChecker == ValidateFile \/ ExitChecker

SpecChecker == InitChecker /\ [][NextChecker]_vars

-----------------------------------------------------------------------------
(* The checker run on the file the generator wrote *)

\* validate_erc7730.py is started on the output file of generate_erc7730.py.
\* json.dump writes dicts as objects with their keys in order, lists as
\* arrays, str and int as they are, and json.load reads the same values back:
\* the document loaded is the descriptor written.
RunChecker ==
    /\ pc = "done"
    /\ output # <<>>
    /\ files' = <<[path |-> output[1].path, status |-> "loaded",
                   data |-> output[1].data]>>
    /\ validators' = <<>>
    /\ all_passed' = TRUE
    /\ exit_status' = <<>>
    /\ pc' = "validate"
    /\ UNCHANGED <<input, address, content, lines, idx, contract_name, functions,
                   descriptor, output, param, fmt>>
    /\ UNCHANGED <<loop_vars, split_vars>>

NextAccept == Generate \/ WriteOutput \/ RunChecker \/ ValidateFile \/ ExitChecker

SpecAccept == InitGen /\ [][NextAccept]_vars

-----------------------------------------------------------------------------
(* Properties of the scanner, checked under Spec *)

\* the blocks of the source file
InputBlocks == {input.body[k] : k \in 1..Len(input.body)}

\* the names of the functions the source file declares view or pure
ViewOrPureNames ==
    {b.decl[1].name : b \in {b2 \in InputBlocks :
                                b2.decl[1].mutability \in {"view", "pure"}}}

RecordNames == {functions[k].name : k \in 1..Len(functions)}

\* the keys of display.formats once the descriptor is generated
FormatKeys ==
    IF pc \in {"write", "done"} THEN DictKeys(descriptor["display"].formats)
    ELSE {}

\* C1: a source text without a contract declaration makes parse fail: main
\* never gets past the parse, no function record, descriptor or output file
\* exists, and the process exits with status 1.
C1_NoContractFails ==
    input.header.contracts = <<>> =>
        /\ pc \in {"parse", "exit"}
        /\ functions = <<>>
        /\ DOMAIN descriptor = {}
        /\ output = <<>>
        /\ (pc = "exit" => exit_status = <<1>>)

\* C2: no function declared view or pure is in the list of function records
\* or a key of display.formats.
C2_NoViewOrPure ==
    /\ RecordNames \cap ViewOrPureNames = {}
    /\ \A key \in FormatKeys : \A n \in ViewOrPureNames : ~StartsWith(key, n \o "(")

\* C3: a source text with a contract declaration is accepted, and the
\* contract name is the name of the first declaration.
C3_DeclarationAccepted ==
    (input.header.contracts # <<>> /\ pc # "parse") =>
        /\ pc # "exit"
        /\ contract_name = input.header.contracts[1]

\* C9: the intent of a function whose own documentation block has a @notice
\* text is that text up to its first period.
C9_OwnNotice ==
    \A k \in 1..Len(functions) : \A b \in InputBlocks :
        (b.decl[1].name = functions[k].name /\ b.decl[1].notice # "") =>
            get_intent(functions[k]) = b.decl[1].notice

-----------------------------------------------------------------------------
(* Properties of the classifier, checked under SpecFormat *)

FormatTags ==
    {"addressName", "tokenAmount", "date", "duration", "raw", "calldata", "enum"}

IsIntegerType(t) == StartsWith(t, "uint") \/ StartsWith(t, "int")

NameHas(subs) == \E x \in subs : Contains(Lower(param.name), x)

\* C4: get_format returns the outcome of the first matching rule of the
\* decision order, and always one of the seven tags.
C4_FirstMatchingRule ==
    pc = "classified" =>
        /\ fmt \in FormatTags
        /\ param.type = "address" => fmt = "addressName"
        /\ (param.type # "address" /\ IsIntegerType(param.type)) =>
            /\ NameHas({"amount", "value", "balance"}) => fmt = "tokenAmount"
            /\ (~NameHas({"amount", "value", "balance"})
                    /\ NameHas({"timestamp", "time", "deadline"})) => fmt = "date"
            /\ (~NameHas({"amount", "value", "balance"})
                    /\ ~NameHas({"timestamp", "time", "deadline"})
                    /\ NameHas({"duration", "period"})) => fmt = "duration"
            /\ (~NameHas({"amount", "value", "balance"})
                    /\ ~NameHas({"timestamp", "time", "deadline"})
                    /\ ~NameHas({"duration", "period"})) => fmt = "raw"
        /\ (param.type # "address" /\ ~IsIntegerType(param.type)) =>
            /\ param.type = "bytes" => fmt = "calldata"
            /\ (param.type # "bytes" /\ StartsWith(param.type, "bytes")) => fmt = "raw"
            /\ param.type = "string" => fmt = "raw"
            /\ param.type = "bool" => fmt = "enum"
            /\ (~StartsWith(param.type, "bytes") /\ param.type # "string"
                    /\ param.type # "bool") => fmt = "raw"

\* an integer parameter whose name contains both amount and deadline
C4_Witness ==
    /\ pc = "classified"
    /\ param = FunctionParameter("amountDeadline", "uint256")
    /\ fmt = "tokenAmount"

-----------------------------------------------------------------------------
(* Properties of the generator, checked under SpecGen *)

Generated == pc = "write"

Formats == descriptor["display"].formats

Metadata == descriptor["metadata"]

\* the records whose FormatSpec the descriptor keeps: no later record has
\* the same signature
KeptRecords ==
    {k \in 1..Len(functions) :
        \A j \in (k + 1)..Len(functions) :
            get_signature(functions[j]) # get_signature(functions[k])}

\* the entry of display.formats for the record functions[k]
EntryOf(k) == DictGet(Formats, get_signature(functions[k]))

HasBoolParam ==
    \E k \in 1..Len(functions) : \E j \in 1..Len(functions[k].parameters) :
        functions[k].parameters[j].type = "bool"

\* C5: every enum field refers to the shared boolean enum, and the
\* descriptor declares metadata.enums.boolean if and only if some function
\* record has a parameter of type bool.
C5_BooleanEnum ==
    Generated =>
        /\ \A e \in 1..Len(Formats) : \A j \in 1..Len(Formats[e].value.fields) :
            LET field == Formats[e].value.fields[j]
            IN  ("format" \in DOMAIN field /\ field["format"] = "enum") =>
                    /\ "params" \in DOMAIN field
                    /\ DOMAIN field["params"] = {"enumPath"}
                    /\ field["params"].enumPath = "$.metadata.enums.boolean"
                    /\ "enums" \in DOMAIN Metadata
        /\ ("enums" \in DOMAIN Metadata) <=> HasBoolParam
        /\ "enums" \in DOMAIN Metadata =>
                Metadata["enums"] = [boolean |-> ("0" :> "False" @@ "1" :> "True")]

\* a descriptor with an enum field that is not the first parameter
C5_Witness ==
    /\ Generated
    /\ "enums" \in DOMAIN Metadata
    /\ \E e \in 1..Len(Formats) :
        /\ Len(Formats[e].value.fields) = 2
        /\ "format" \in DOMAIN Formats[e].value.fields[2]
        /\ Formats[e].value.fields[2]["format"] = "enum"

\* the positions of the parameters of type address named like a token
TokenPositions(f) ==
    {j \in 1..Len(f.parameters) :
        /\ f.parameters[j].type = "address"
        /\ Contains(Lower(f.parameters[j].name), "token")}

\* C6: a non-array tokenAmount field has params.tokenPath equal to the name
\* of the first address parameter of the same function whose lower-cased
\* name contains token, and no params when there is no such parameter.
C6_TokenPath ==
    Generated =>
        /\ \A k \in KeptRecords : \A j \in 1..Len(functions[k].parameters) :
            LET f == functions[k]
                field == EntryOf(k).fields[j]
            IN  (~EndsWith(f.parameters[j].type, "[]")
                    /\ field["format"] = "tokenAmount") =>
                    IF TokenPositions(f) = {}
                    THEN "params" \notin DOMAIN field
                    ELSE /\ "params" \in DOMAIN field
                         /\ field["params"] =
                              [tokenPath |-> f.parameters[Min(TokenPositions(f))].name]
        /\ \A k \in KeptRecords :
            (Len(functions[k].parameters) = 2
                /\ functions[k].parameters[1] = FunctionParameter("token", "address")
                /\ functions[k].parameters[2] = FunctionParameter("amount", "uint256")) =>
                EntryOf(k).fields[2]["params"].tokenPath = "token"

\* a tokenAmount field of a function with two token parameters
C6_Witness ==
    /\ Generated
    /\ \E k \in KeptRecords : \E j \in 1..Len(functions[k].parameters) :
        /\ Cardinality(TokenPositions(functions[k])) = 2
        /\ "format" \in DOMAIN EntryOf(k).fields[j]
        /\ EntryOf(k).fields[j]["format"] = "tokenAmount"
        /\ "params" \in DOMAIN EntryOf(k).fields[j]

\* name(type1,type2,...) written from the last type backwards
RECURSIVE TypeList(_)
TypeList(types) ==
    IF Len(types) = 0 THEN ""
    ELSE IF Len(types) = 1 THEN types[1]
    ELSE TypeList(SubSeq(types, 1, Len(types) - 1)) \o "," \o types[Len(types)]

SignatureText(f) ==
    f.name \o "(" \o TypeList([j \in 1..Len(f.parameters) |-> f.parameters[j].type]) \o ")"

\* C7: display.formats has exactly one entry per distinct signature
\* name(type1,type2,...) of the records, and the entry of a signature is the
\* FormatSpec of the last record with that signature.
C7_SignatureKeys ==
    Generated =>
        /\ DictKeys(Formats) = {SignatureText(functions[k]) : k \in 1..Len(functions)}
        /\ Len(Formats) = Cardinality(DictKeys(Formats))
        /\ \A k \in 1..Len(functions) :
            LET later == {j \in k..Len(functions) :
                            SignatureText(functions[j]) = SignatureText(functions[k])}
                last == CHOOSE j \in later : \A j2 \in later : j >= j2
            IN  DictGet(Formats, SignatureText(functions[k]))
                    = _generate_format_for_function(functions[last])

\* two records with the same signature and different FormatSpecs
C7_Witness ==
    /\ Generated
    /\ Len(functions) = 2
    /\ SignatureText(functions[1]) = SignatureText(functions[2])
    /\ _generate_format_for_function(functions[1])
            # _generate_format_for_function(functions[2])
    /\ Len(Formats) = 1

PrefixOrder ==
    <<"transfer", "approve", "execute", "deposit", "withdraw", "swap", "mint",
      "burn", "grant", "revoke", "set", "update", "claim", "stake", "unstake">>

\* the entries of the prefix table that are a prefix of name
PrefixHits(name) ==
    {k \in 1..Len(IntentPrefixes) : StartsWith(name, IntentPrefixes[k][1])}

\* C8: without documentation text the intent is the description of the first
\* entry of the ordered prefix table that is a prefix of the function name,
\* and the name with its first character upper-cased when there is none;
\* transfer(address to, uint256 amount) has intent "Transfer tokens" and
\* fields addressName and tokenAmount.
C8_IntentFromName ==
    Generated =>
        /\ [k \in 1..Len(IntentPrefixes) |-> IntentPrefixes[k][1]] = PrefixOrder
        /\ \A k \in KeptRecords :
            LET f == functions[k]
            IN  f.natspec = None =>
                    EntryOf(k).intent =
                        IF PrefixHits(f.name) # {}
                        THEN IntentPrefixes[Min(PrefixHits(f.name))][2]
                        ELSE UpperChar(Char(f.name, 1)) \o SubSeq(f.name, 2, Len(f.name))
        /\ \A k \in KeptRecords :
            (functions[k].natspec = None /\ functions[k].name = "transfer"
                /\ functions[k].parameters =
                        <<FunctionParameter("to", "address"),
                          FunctionParameter("amount", "uint256")>>) =>
                /\ EntryOf(k).intent = "Transfer tokens"
                /\ EntryOf(k).fields[1]["format"] = "addressName"
                /\ EntryOf(k).fields[2]["format"] = "tokenAmount"

\* transfer(address to, uint256 amount) without documentation
C8_Witness ==
    /\ Generated
    /\ \E k \in KeptRecords :
        /\ functions[k].natspec = None
        /\ get_signature(functions[k]) = "transfer(address,uint256)"
        /\ functions[k].parameters[1].name = "to"
        /\ EntryOf(k).intent = "Transfer tokens"

\* the names of the parameters of f that the interpolated intent may show
RECURSIVE MatchingNames(_, _)
MatchingNames(f, j) ==
    IF j > Len(f.parameters) THEN <<>>
    ELSE (IF \E x \in {"amount", "value", "to", "recipient", "token"} :
                Contains(Lower(f.parameters[j].name), x)
          THEN <<f.parameters[j].name>> ELSE <<>>) \o MatchingNames(f, j + 1)

\* the text that follows the intent in the interpolated intent of f
InterpolatedSuffix(f) ==
    LET names == MatchingNames(f, 1)
    IN  IF Len(names) = 0 THEN ""
        ELSE IF Len(names) = 1 THEN " {" \o names[1] \o "}"
        ELSE " {" \o names[1] \o "} {" \o names[2] \o "}"

\* C10: a FormatSpec has interpolatedIntent if and only if the function has
\* a parameter; its value is the intent followed by the placeholders of the
\* first two parameters with a matching name, the plain intent when no name
\* matches, and it has at most two placeholders.
C10_InterpolatedIntent ==
    Generated =>
        \A k \in KeptRecords :
            LET f == functions[k]
                entry == EntryOf(k)
            IN  /\ ("interpolatedIntent" \in DOMAIN entry) <=> (Len(f.parameters) > 0)
                /\ "interpolatedIntent" \in DOMAIN entry =>
                    /\ entry["interpolatedIntent"] = entry.intent \o InterpolatedSuffix(f)
                    /\ Count(SubSeq(entry["interpolatedIntent"], Len(entry.intent) + 1,
                                    Len(entry["interpolatedIntent"])), "{") <= 2

\* a function with more than two matching parameters
C10_Witness ==
    /\ Generated
    /\ \E k \in KeptRecords :
        /\ Len(MatchingNames(functions[k], 1)) > 2
        /\ "interpolatedIntent" \in DOMAIN EntryOf(k)

-----------------------------------------------------------------------------
(* Properties of the checker, checked under SpecChecker *)

\* the files that open or json.load rejects
LoadFails(file) == file.status \in {"missing", "malformed"}

\* C11: the checker exits with status 0 exactly when every file of the batch
\* was validated with an empty error list, whatever its warnings and
\* suggestions; a missing or malformed file fails with one error and no
\* rule's finding, and the files after it are validated all the same.
C11_ExitStatus ==
    /\ pc = "exit" =>
        /\ Len(validators) = Len(files)
        /\ exit_status \in {<<0>>, <<1>>}
        /\ exit_status = <<0>> <=>
                \A k \in 1..Len(files) : validators[k].errors = <<>>
    /\ \A k \in 1..Len(validators) :
        /\ LoadFails(files[k]) =>
                /\ Len(validators[k].errors) = 1
                /\ validators[k].warnings = <<>>
                /\ validators[k].info = <<>>
                /\ ~validators[k].passed
        /\ ~LoadFails(files[k]) => validators[k] = validate(files[k])

\* a batch whose first file is missing and whose second file has warnings
\* and suggestions but no error
C11_Witness ==
    /\ pc = "exit"
    /\ Len(files) = 2
    /\ files[1].status = "missing"
    /\ files[2].status = "loaded"
    /\ validators[2].errors = <<>>
    /\ validators[2].warnings # <<>>
    /\ validators[2].info # <<>>
    /\ exit_status = <<1>>

-----------------------------------------------------------------------------
(* Properties of the scans of _parse_functions, checked under Spec *)

\* a candidate line has just been handled by the loop of _parse_functions
CandidateDone == idx > 1 /\ idx - 1 <= Len(lines) /\ IsCandidate(lines[idx - 1])

IsBlankOrLineComment(line) == Strip(line) = "" \/ StartsWith(Strip(line), "//")

\* the nearest line above line i that is neither blank nor a // line (0: none)
RECURSIVE LineAbove(_, _)
LineAbove(ls, i) ==
    IF i <= 1 THEN 0
    ELSE IF IsBlankOrLineComment(ls[i - 1]) THEN LineAbove(ls, i - 1)
    ELSE i - 1

\* the nearest line at or above line k that starts with /** (1: none)
RECURSIVE BlockStart(_, _)
BlockStart(ls, k) ==
    IF k <= 1 \/ StartsWith(Strip(ls[k]), "/**") THEN k
    ELSE BlockStart(ls, k - 1)

\* the documentation block that immediately precedes line i
BlockBefore(ls, i) ==
    LET last == LineAbove(ls, i)
    IN  IF last = 0 \/ ~EndsWith(Strip(ls[last]), "*/") THEN None
        ELSE Join([k \in 1..(last - BlockStart(ls, last) + 1) |->
                        Strip(ls[BlockStart(ls, last) + k - 1])], "\n")

\* C12: the backward lookup from a candidate line returns the lines of the
\* block comment that immediately precedes it, from the line that starts
\* with /** (the closing line itself for a one-line comment) to the line
\* that ends in */, and nothing when a code line comes first.
C12_OwnBlock == CandidateDone => loop_natspec = BlockBefore(lines, idx - 1)

\* the parenthesis depth at the end of line j of a scan that starts at line i
RECURSIVE DepthAfter(_, _, _)
DepthAfter(ls, i, j) ==
    IF j < i THEN 0
    ELSE DepthAfter(ls, i, j - 1) + Count(ls[j], "(") - Count(ls[j], ")")

\* the depth is positive somewhere in s, read from depth 0
RECURSIVE BecomesPositive(_, _)
BecomesPositive(s, depth) ==
    IF s = "" THEN FALSE
    ELSE LET d == depth + (IF Char(s, 1) = "(" THEN 1 ELSE 0)
                        - (IF Char(s, 1) = ")" THEN 1 ELSE 0)
         IN  d > 0 \/ BecomesPositive(SubSeq(s, 2, Len(s)), d)

HasBraceOrSemicolon(line) == Contains(line, "{") \/ Contains(line, ";")

\* the lines at which the scan from line i may stop: the depth is back at 0
\* after having been positive, and a brace or semicolon was seen on one of
\* the lines i..j
StopsSeenBefore(ls, i) ==
    {j \in i..Len(ls) :
        /\ \E k \in i..j : HasBraceOrSemicolon(ls[k])
        /\ DepthAfter(ls, i, j) = 0
        /\ BecomesPositive(Join(SubSeq(ls, i, j), ""), 0)}

\* the same with the brace or semicolon on line j itself and an opening
\* parenthesis on one of the lines i..j
StopsOnLine(ls, i) ==
    {j \in i..Len(ls) :
        /\ HasBraceOrSemicolon(ls[j])
        /\ \E k \in i..j : Contains(ls[k], "(")
        /\ DepthAfter(ls, i, j) = 0}

\* lines i..j joined with single spaces, j the first line of stops and the
\* last line of the source when there is none
ScanText(ls, i, stops) ==
    LET j == IF stops = {} THEN Len(ls)
             ELSE CHOOSE j1 \in stops : \A j2 \in stops : j1 <= j2
    IN  Join(SubSeq(ls, i, j), " ")

\* C13 as stated: the forward scan from a candidate line i stops at the
\* first line at which the depth is back at 0 after having been positive and
\* a brace or semicolon has been seen on that line or an earlier line of the
\* scan.
C13_StopsSeenBefore ==
    CandidateDone =>
        loop_func_text = ScanText(lines, idx - 1, StopsSeenBefore(lines, idx - 1))

\* C13: the forward scan from a candidate line i joins lines i..j with single
\* spaces, j being the first line at whose end the depth is 0, an opening
\* parenthesis has been seen and which itself holds a brace or semicolon,
\* and the last line of the source when there is no such line.
C13_StopsOnLine ==
    CandidateDone =>
        loop_func_text = ScanText(lines, idx - 1, StopsOnLine(lines, idx - 1))

\* a scan over several lines that stops before the end of the source, on a
\* later line than the one the parameter list ends on, a semicolon having
\* been seen before
C13_Witness ==
    /\ CandidateDone
    /\ StopsSeenBefore(lines, idx - 1) # StopsOnLine(lines, idx - 1)
    /\ idx + 1 < Len(lines)
    /\ loop_func_text = Join(SubSeq(lines, idx - 1, idx + 1), " ")

-----------------------------------------------------------------------------
(* Properties of _split_parameters, checked under SpecSplit *)

\* the nesting depth after the first k characters of s
RECURSIVE NestingDepth(_, _)
NestingDepth(s, k) ==
    IF k = 0 THEN 0
    ELSE NestingDepth(s, k - 1)
            + (IF Char(s, k) \in {"(", "["} THEN 1 ELSE 0)
            - (IF Char(s, k) \in {")", "]"} THEN 1 ELSE 0)

\* the positions of the commas of s at nesting depth 0
TopCommas(s) == {k \in 1..Len(s) : Char(s, k) = "," /\ NestingDepth(s, k) = 0}

\* every prefix of s has depth >= 0 and s has depth 0
Balanced(s) ==
    /\ \A k \in 0..Len(s) : NestingDepth(s, k) >= 0
    /\ NestingDepth(s, Len(s)) = 0

\* the n-th position of TopCommas(s), 0 for n = 0 and Len(s) + 1 past the last
RECURSIVE CommaAt(_, _)
CommaAt(s, n) ==
    IF n = 0 THEN 0
    ELSE LET later == {k \in TopCommas(s) : k > CommaAt(s, n - 1)}
         IN  IF later = {} THEN Len(s) + 1 ELSE Min(later)

\* the text between the (n-1)-th and the n-th comma of depth 0
Segment(s, n) == SubSeq(s, CommaAt(s, n - 1) + 1, CommaAt(s, n) - 1)

\* C14: _split_parameters splits exactly at the commas of nesting depth 0:
\* its segments are the texts between them (an empty text after the last one
\* is not returned), so no segment holds a comma of depth 0 and a comma
\* inside brackets or parentheses does not split; and joining the segments
\* with a comma gives back a balanced input that does not end in a comma.
C14_SplitAtTopCommas ==
    pc = "split_done" =>
        LET n == Cardinality(TopCommas(split_arg))
            last == Segment(split_arg, n + 1)
        IN  /\ Len(split_parts) = IF last = "" THEN n ELSE n + 1
            /\ \A k \in 1..Len(split_parts) :
                    /\ split_parts[k] = Segment(split_arg, k)
                    /\ TopCommas(split_parts[k]) = {}
            /\ (Balanced(split_arg) /\ ~EndsWith(split_arg, ",")) =>
                    Join(split_parts, ",") = split_arg

\* a balanced parameter list with a comma of depth 0 and a comma in brackets
C14_Witness ==
    /\ pc = "split_done"
    /\ split_arg = "a,[,]"
    /\ split_parts = <<"a", "[,]">>

-----------------------------------------------------------------------------
(* Properties of the list of records, checked under Spec *)

\* the names of the function declarations of the source, in source order
DeclaredNames == [k \in 1..Len(input.body) |-> input.body[k].decl[1].name]

\* the names of the records, in list order
RecordedNames == [k \in 1..Len(functions) |-> functions[k].name]

\* a is b with some elements left out
RECURSIVE IsSubsequence(_, _)
IsSubsequence(a, b) ==
    IF a = <<>> THEN TRUE
    ELSE IF b = <<>> THEN FALSE
    ELSE IF a[1] = b[1] THEN IsSubsequence(Tail(a), Tail(b))
    ELSE IsSubsequence(a, Tail(b))

\* C15: the list of records holds at most one record per function
\* declaration of the source, in source order; a comment line that is a
\* candidate adds no record of its own.
C15_OneRecordPerDeclaration == IsSubsequence(RecordedNames, DeclaredNames)

-----------------------------------------------------------------------------
(* Properties of generator and checker together, checked under SpecAccept *)

\* the format entries of the generated descriptor
GeneratedFormats ==
    IF DOMAIN descriptor = {} THEN <<>> ELSE descriptor["display"].formats

\* the field specs of the generated descriptor
GeneratedFields == AllFields(GeneratedFormats)

\* C16: a descriptor built by generate, with no deployment address or one of
\* 42 characters that starts with 0x, is accepted by the checker with an
\* empty error list: every format has an intent, every field a path and a
\* format or a fields list, every enum field an enumPath, and context has
\* $id and contract.
C16_GeneratedAccepted ==
    /\ DOMAIN descriptor # {} =>
        /\ {"$id", "contract"} \subseteq DOMAIN descriptor["context"]
        /\ \A k \in 1..Len(GeneratedFormats) :
                "intent" \in DOMAIN GeneratedFormats[k].value
        /\ \A k \in 1..Len(GeneratedFields) :
            LET field == GeneratedFields[k]
            IN  /\ "path" \in DOMAIN field
                /\ "format" \in DOMAIN field \/ "fields" \in DOMAIN field
                /\ Get(field, "format", None) = "enum" =>
                        "enumPath" \in DOMAIN Get(field, "params", <<>>)
    /\ \A k \in 1..Len(validators) :
        /\ validators[k].errors = <<>>
        /\ validators[k].passed
    /\ pc = "exit" => exit_status = <<0>>

\* the checker has accepted a descriptor with a deployment, an enum field
\* and an array field
C16_Witness ==
    /\ pc = "exit"
    /\ exit_status = <<0>>
    /\ Len(validators) = 1
    /\ files[1].data = descriptor
    /\ Len(address) = 42
    /\ \E k \in 1..Len(GeneratedFields) :
            Get(GeneratedFields[k], "format", None) = "enum"
    /\ \E k \in 1..Len(GeneratedFields) : "fields" \in DOMAIN GeneratedFields[k]

====
